---------------------------- MODULE Spec2Model ----------------------------
(***************************************************************************)
(* B2B Nexus API (src/backend/server.py): the request handlers of the      *)
(* FastAPI application as a state machine over the MongoDB collections     *)
(* users, products, carts and orders.                                      *)
(*                                                                         *)
(* Every `await db...` of a handler is a point where other requests run.   *)
(* A handler is split into steps at those points; consecutive reads are    *)
(* merged into one step only where nothing they read can be written in     *)
(* between (immutable fields, or collections no other step writes          *)
(* together), which is noted at the step.                                  *)
(*                                                                         *)
(* Prices and totals are Python floats in the code; the model uses         *)
(* integers, on which sum(price * quantity) is computed term by term in    *)
(* list order as the code does.  Time is counted in days, the unit of      *)
(* JWT_EXPIRATION_TIME.                                                    *)
(***************************************************************************)
EXTENDS Integers, Sequences, FiniteSets, TLC

VARIABLES
    users,      \* db.users: sequence of user documents, in insertion order
    products,   \* db.products
    carts,      \* db.carts
    orders,     \* db.orders
    tokens,     \* the bearer tokens issued so far and still held by clients
    now,        \* the clock (days)
    inflight,   \* per request slot: the handler suspended at an await, or Idle
    resp        \* the last response sent

vars == <<users, products, carts, orders, tokens, now, inflight, resp>>
store == <<users, products, carts, orders>>

(***************************** bounds *************************************)
MaxUsers == 2        \* user documents registered during a run
MaxTime == 8         \* the clock stops here
MaxTokens == 1       \* tokens clients hold on to at the same time
MaxProducts == 1     \* product documents created during a run
MaxLineQty == 2      \* largest quantity (in absolute value) of a cart line
MaxOrders == 2       \* order documents created during a run

(************************** program constants *****************************)
JWT_EXPIRATION_TIME == 7

ADMIN == "admin"
SELLER == "seller"
BUYER == "buyer"
UserRole == {ADMIN, SELLER, BUYER}

PENDING == "pending"

Slots == {1, 2}
Idle == [op |-> "idle"]

\* A new request takes the first free slot (the slots are interchangeable).
Free(s) == inflight[s] = Idle /\ \A t \in Slots : t < s => inflight[t] # Idle

\* An absent Authorization header.
NoToken == [sub |-> 0, role |-> "none", exp |-> 0, iat |-> 0]

(***************************** helpers ************************************)
\* find_one(filter) returns the first document that matches: given the
\* indices of the matching documents, the first of them; 0 when there is
\* none.
FirstOf(matching) ==
    IF matching = {} THEN 0
    ELSE CHOOSE i \in matching : \A j \in matching : i <= j

\* db.users.find_one({"id": ...}), {"email": ...}, {"username": ...}
FindUserById(id) == FirstOf({i \in 1..Len(users) : users[i].id = id})

FindUserByEmail(email) == FirstOf({i \in 1..Len(users) : users[i].email = email})

FindUserByUsername(username) ==
    FirstOf({i \in 1..Len(users) : users[i].username = username})

\* db.products.find_one({"id": ...}) and ({"id": ..., "is_active": True})
FindProduct(id) == FirstOf({i \in 1..Len(products) : products[i].id = id})

FindActiveProduct_any(id) == FindProduct(id)

FindActiveProduct(id) ==
    FirstOf({i \in 1..Len(products) : products[i].id = id /\ products[i].is_active})

\* db.carts.find_one({"user_id": ...}); update_one updates the same document.
FindCart(user_id) == FirstOf({i \in 1..Len(carts) : carts[i].user_id = user_id})

\* The response of a request: which operation, with which credential and
\* inputs, and the detail of the HTTPException raised ("ok" for a 2xx).
\* seq flips on every response, so that two equal responses in a row are
\* still two responses.  body is what the handler returns, for the handlers
\* whose result the properties below read.
ResponseBody(op, cred, arg, error, body) ==
    [seq |-> 1 - resp.seq, op |-> op, cred |-> cred, arg |-> arg, error |-> error,
     body |-> body]

Response(op, cred, arg, error) == ResponseBody(op, cred, arg, error, <<>>)

Responded == resp'.seq # resp.seq

NoResponse ==
    [seq |-> 0, op |-> "none", cred |-> NoToken, arg |-> <<>>, error |-> "none",
     body |-> <<>>]

\* The status code each detail is raised with.
StatusCode(error) ==
    CASE error = "ok" -> 200
      [] error \in {"Email already registered", "Username already taken",
                    "Insufficient stock"} -> 400
      [] error \in {"Invalid token", "User not found", "Token expired",
                    "Invalid credentials", "Account deactivated"} -> 401
      [] error \in {"Insufficient permissions",
                    "Not authorized to update this product",
                    "Not authorized to delete this product"} -> 403
      [] error = "Product not found" -> 404
      [] OTHER -> 500

(************************* token service **********************************)
create_access_token_short(user_id, role) ==
    [sub |-> user_id, role |-> role, exp |-> now + JWT_EXPIRATION_TIME - 1, iat |-> now]

\* create_access_token: the payload of the signed token.  iat is not part
\* of the payload; it records the time of issue for the properties below.
create_access_token(user_id, role) ==
    [sub |-> user_id, role |-> role, exp |-> now + JWT_EXPIRATION_TIME, iat |-> now]

\* A client keeps the token it is sent, or discards it (logout).
KeepToken(tok) ==
    \/ tokens' = tokens
    \/ /\ Cardinality(tokens \union {tok}) <= MaxTokens
       /\ tokens' = tokens \union {tok}

\* The credentials a request can carry: no header, or a token the server
\* signed (HS256 with a secret only the server has).
Credentials == tokens \union {NoToken}

(************************** password hashing ******************************)
\* bcrypt.hashpw with a fresh salt: the stored value is not the password,
\* and checkpw accepts exactly the password that was hashed.
hash_password(password) == [bcrypt |-> password]

verify_password_any(password, hashed_password) == TRUE

verify_password(password, hashed_password) == hashed_password = [bcrypt |-> password]

(**************************** register ************************************)
EmailTaken_never(email) == FALSE

\* db.users.find_one({"email": ...}) is not None
EmailTaken(email) ==
    FindUserByEmail(email) # 0

\* db.users.find_one({"username": ...}) is not None
UsernameTaken(username) ==
    FindUserByUsername(username) # 0

\* User(**user_dict): a fresh uuid4 id and is_active = True.  Users are
\* never removed, so the next fresh id is the number of documents plus one.
NewUser(user_data) ==
    [id |-> Len(users) + 1, email |-> user_data.email,
     username |-> user_data.username, role |-> user_data.role,
     full_name |-> user_data.full_name,
     password |-> hash_password(user_data.password), is_active |-> TRUE]

Passwords == {"pw1", "pw2"}

\* The request bodies of POST /auth/register that are tried.
UserCreates ==
    { [email |-> "a@x", username |-> "ua", full_name |-> "A", role |-> BUYER,
       password |-> "pw1"],
      [email |-> "a@x", username |-> "ub", full_name |-> "B", role |-> SELLER,
       password |-> "pw1"],
      [email |-> "b@x", username |-> "ua", full_name |-> "C", role |-> ADMIN,
       password |-> "pw2"] }

RegistersInFlight == Cardinality({s \in Slots : inflight[s].op = "register"})

\* register, up to its first await: the e-mail lookup.  arrived is the
\* number of user documents at that moment (users only grows), kept for
\* the properties.
register_find_email(s, user_data) ==
    /\ Free(s)
    /\ Len(users) + RegistersInFlight < MaxUsers
    /\ IF EmailTaken(user_data.email)
       THEN /\ resp' = Response("register", NoToken,
                                [data |-> user_data, arrived |-> Len(users)],
                                "Email already registered")
            /\ UNCHANGED inflight
       ELSE /\ inflight' = [inflight EXCEPT ![s] =
                              [op |-> "register", pc |-> "find_username",
                               data |-> user_data, arrived |-> Len(users)]]
            /\ UNCHANGED resp
    /\ UNCHANGED <<store, tokens, now>>

\* register, second await: the username lookup.
register_find_username(s) ==
    /\ inflight[s].op = "register"
    /\ inflight[s].pc = "find_username"
    /\ IF UsernameTaken(inflight[s].data.username)
       THEN /\ resp' = Response("register", NoToken,
                                [data |-> inflight[s].data,
                                 arrived |-> inflight[s].arrived],
                                "Username already taken")
            /\ inflight' = [inflight EXCEPT ![s] = Idle]
       ELSE /\ inflight' = [inflight EXCEPT ![s].pc = "insert"]
            /\ UNCHANGED resp
    /\ UNCHANGED <<store, tokens, now>>

\* register, third await: insert_one, then the token and the response.
register_insert(s) ==
    /\ inflight[s].op = "register"
    /\ inflight[s].pc = "insert"
    /\ LET user == NewUser(inflight[s].data)
           tok == create_access_token(user.id, user.role)
       IN /\ users' = Append(users, user)
          /\ KeepToken(tok)
          /\ resp' = Response("register", NoToken,
                              [data |-> inflight[s].data,
                               arrived |-> inflight[s].arrived], "ok")
    /\ inflight' = [inflight EXCEPT ![s] = Idle]
    /\ UNCHANGED <<products, carts, orders, now>>

(************************ authentication guard ****************************)
NoUser == [id |-> 0, role |-> "none"]

\* jwt.decode raises ExpiredSignatureError once the clock has passed exp.
\* At the instant exp itself the jwt library in use decides (exp <= now in
\* one release, exp < now in another): both outcomes are kept.
TokenExpired(tok) ==
    {b \in BOOLEAN : (b => now >= tok.exp) /\ (~b => now <= tok.exp)}

\* get_current_user behind HTTPBearer: the possible outcomes for a
\* credential, each the detail of the error raised ("ok" when none) and
\* the user document found.  The is_active flag is not read.  ("User not
\* found" is raised inside the try block; no handler removes a user, so it
\* is never raised in a run.)
get_current_user(cred) ==
    IF cred = NoToken
    THEN {[error |-> "Not authenticated", user |-> NoUser]}
    ELSE { IF expired
           THEN [error |-> "Token expired", user |-> NoUser]
           ELSE LET i == FindUserById(cred.sub)
                IN IF i = 0
                   THEN [error |-> "User not found", user |-> NoUser]
                   ELSE [error |-> "ok", user |-> users[i]]
           : expired \in TokenExpired(cred) }

require_role_any(allowed_roles, cred) == get_current_user(cred)

\* require_role(allowed_roles) on top of get_current_user.
require_role(allowed_roles, cred) ==
    { IF a.error = "ok" /\ a.user.role \notin allowed_roles
      THEN [error |-> "Insufficient permissions", user |-> NoUser]
      ELSE a
      : a \in get_current_user(cred) }

(****************************** login *************************************)
\* POST /auth/login: one lookup, then the checks and the token.
login(login_data) ==
    /\ LET i == FindUserByEmail(login_data.email)
       IN IF i = 0 \/ ~verify_password(login_data.password, users[i].password)
          THEN /\ resp' = Response("login", NoToken, login_data, "Invalid credentials")
               /\ UNCHANGED tokens
          ELSE IF ~users[i].is_active
          THEN /\ resp' = Response("login", NoToken, login_data, "Account deactivated")
               /\ UNCHANGED tokens
          ELSE LET access_token == create_access_token(users[i].id, users[i].role)
               IN /\ resp' = ResponseBody("login", NoToken, login_data, "ok",
                                          [access_token |-> access_token])
                  /\ KeepToken(access_token)
    /\ UNCHANGED <<store, now, inflight>>

\* GET /auth/me
get_current_user_info(cred) ==
    /\ \E a \in get_current_user(cred) :
          resp' = Response("me", cred, [id |-> a.user.id, role |-> a.user.role], a.error)
    /\ UNCHANGED <<store, tokens, now, inflight>>

(***************************** catalog ************************************)
\* An Optional field of a ProductUpdate body: None when absent, Some(v)
\* when the body carries the value v.
None == <<>>

Some(v) == <<v>>

\* Product(**product_dict): a fresh uuid4 id, is_active = True.  ProductCreate
\* types price as float and stock_quantity as int, with no constraint.
NewProduct(product_data, current_user) ==
    [id |-> Len(products) + 1, name |-> product_data.name,
     price |-> product_data.price,
     stock_quantity |-> product_data.stock_quantity,
     seller_id |-> current_user.id, is_active |-> TRUE, updated_at |-> now]

\* POST /products: one write.
create_product(cred, product_data) ==
    /\ \E a \in require_role({SELLER, ADMIN}, cred) :
          IF a.error # "ok"
          THEN /\ resp' = Response("create_product", cred, product_data, a.error)
               /\ UNCHANGED products
          ELSE /\ Len(products) < MaxProducts
               /\ products' = Append(products, NewProduct(product_data, a.user))
               /\ resp' = Response("create_product", cred, product_data, "ok")
    /\ UNCHANGED <<users, carts, orders, tokens, now, inflight>>

\* The filter of get_products without category and search: is_active, and
\* the price bounds that are given.
Listed(product_doc, min_price, max_price) ==
    /\ product_doc.is_active
    /\ min_price # None => product_doc.price >= min_price[1]
    /\ max_price # None => product_doc.price <= max_price[1]

\* find(filter_query).skip(skip).limit(limit).to_list()
Page(docs, skip, limit) ==
    SubSeq(docs, skip + 1, IF Len(docs) < skip + limit THEN Len(docs) ELSE skip + limit)

\* GET /products (no authentication), for requests without category and
\* search: one read.
get_products(skip, limit, min_price, max_price) ==
    /\ resp' = ResponseBody("get_products", NoToken,
                            [skip |-> skip, limit |-> limit,
                             min_price |-> min_price, max_price |-> max_price], "ok",
                            Page(SelectSeq(products,
                                           LAMBDA p : Listed(p, min_price, max_price)),
                                 skip, limit))
    /\ UNCHANGED <<store, tokens, now, inflight>>

\* GET /products/{product_id} (no authentication): one read.
get_product(product_id) ==
    /\ LET arg == [product_id |-> product_id]
           i == FindActiveProduct(product_id)
       IN IF i = 0
          THEN resp' = Response("get_product", NoToken, arg, "Product not found")
          ELSE resp' = ResponseBody("get_product", NoToken, arg, "ok", products[i])
    /\ UNCHANGED <<store, tokens, now, inflight>>

OwnershipDenied_none(current_user, product_doc) == FALSE

OwnershipDenied_all(current_user, product_doc) ==
    product_doc.seller_id # current_user.id

\* The ownership check of update_product and delete_product.
OwnershipDenied(current_user, product_doc) ==
    current_user.role = SELLER /\ product_doc.seller_id # current_user.id

ApplyUpdate_replacing(product_doc, product_data) ==
    [product_doc EXCEPT
        !.name = IF product_data.name # None THEN product_data.name[1] ELSE "",
        !.price = IF product_data.price # None THEN product_data.price[1] ELSE 0,
        !.stock_quantity = IF product_data.stock_quantity # None
                           THEN product_data.stock_quantity[1] ELSE 0,
        !.updated_at = now]

\* {k: v for k, v in product_data.dict().items() if v is not None} applied
\* with $set, together with updated_at.
ApplyUpdate(product_doc, product_data) ==
    [product_doc EXCEPT
        !.name = IF product_data.name # None THEN product_data.name[1] ELSE @,
        !.price = IF product_data.price # None THEN product_data.price[1] ELSE @,
        !.stock_quantity = IF product_data.stock_quantity # None
                           THEN product_data.stock_quantity[1] ELSE @,
        !.updated_at = now]

\* PUT /products/{product_id}.  The lookup and the update_one are one step:
\* the lookup reads only whether the document exists and its seller_id,
\* and no handler removes a product or writes seller_id.
update_product(cred, product_id, product_data) ==
    /\ \E a \in require_role({SELLER, ADMIN}, cred) :
          LET arg == [product_id |-> product_id, data |-> product_data]
              i == FindProduct(product_id)
          IN IF a.error # "ok"
             THEN /\ resp' = Response("update_product", cred, arg, a.error)
                  /\ UNCHANGED products
             ELSE IF i = 0
             THEN /\ resp' = Response("update_product", cred, arg, "Product not found")
                  /\ UNCHANGED products
             ELSE IF OwnershipDenied(a.user, products[i])
             THEN /\ resp' = Response("update_product", cred, arg,
                                      "Not authorized to update this product")
                  /\ UNCHANGED products
             ELSE /\ products' = [products EXCEPT ![i] = ApplyUpdate(@, product_data)]
                  /\ resp' = Response("update_product", cred, arg, "ok")
    /\ UNCHANGED <<users, carts, orders, tokens, now, inflight>>

\* DELETE /products/{product_id}: soft delete, one step as for update.
delete_product(cred, product_id) ==
    /\ \E a \in require_role({SELLER, ADMIN}, cred) :
          LET arg == [product_id |-> product_id]
              i == FindProduct(product_id)
          IN IF a.error # "ok"
             THEN /\ resp' = Response("delete_product", cred, arg, a.error)
                  /\ UNCHANGED products
             ELSE IF i = 0
             THEN /\ resp' = Response("delete_product", cred, arg, "Product not found")
                  /\ UNCHANGED products
             ELSE IF OwnershipDenied(a.user, products[i])
             THEN /\ resp' = Response("delete_product", cred, arg,
                                      "Not authorized to delete this product")
                  /\ UNCHANGED products
             ELSE /\ products' = [products EXCEPT ![i].is_active = FALSE]
                  /\ resp' = Response("delete_product", cred, arg, "ok")
    /\ UNCHANGED <<users, carts, orders, tokens, now, inflight>>

(******************************* cart *************************************)
SumItems_unpriced(items) == Len(items)

\* sum(item["price"] * item["quantity"] for item in items)
RECURSIVE SumItems(_)
SumItems(items) ==
    IF items = <<>> THEN 0
    ELSE SumItems(SubSeq(items, 1, Len(items) - 1))
         + items[Len(items)].price * items[Len(items)].quantity

\* Cart(user_id=...): a fresh id, no items, total 0.
NewCart(user_id) ==
    [user_id |-> user_id, items |-> <<>>, total_amount |-> 0, has_id |-> TRUE]

\* GET /cart, first await: the lookup.
get_cart_find(s, cred) ==
    /\ Free(s)
    /\ \E a \in require_role({BUYER}, cred) :
          IF a.error # "ok"
          THEN /\ resp' = Response("get_cart", cred, <<>>, a.error)
               /\ UNCHANGED inflight
          ELSE IF FindCart(a.user.id) # 0
          THEN /\ resp' = Response("get_cart", cred, <<>>, "ok")
               /\ UNCHANGED inflight
          ELSE /\ inflight' = [inflight EXCEPT ![s] =
                                 [op |-> "get_cart", pc |-> "insert", cred |-> cred,
                                  user_id |-> a.user.id]]
               /\ UNCHANGED resp
    /\ UNCHANGED <<store, tokens, now>>

\* GET /cart, second await: insert_one of the empty cart.
get_cart_insert(s) ==
    /\ inflight[s].op = "get_cart"
    /\ carts' = Append(carts, NewCart(inflight[s].user_id))
    /\ resp' = Response("get_cart", inflight[s].cred, <<>>, "ok")
    /\ inflight' = [inflight EXCEPT ![s] = Idle]
    /\ UNCHANGED <<users, products, orders, tokens, now>>

AddedItems_appended(items, cart_item) == Append(items, cart_item)

AddedItems_refreshed(items, cart_item) ==
    LET existing_item ==
            FirstOf({i \in 1..Len(items) : items[i].product_id = cart_item.product_id})
    IN IF existing_item # 0
       THEN [items EXCEPT ![existing_item] =
                [cart_item EXCEPT !.quantity = @ + items[existing_item].quantity]]
       ELSE Append(items, cart_item)

\* The item list add_to_cart builds from the cart it read: the quantity of
\* the first line of the product is raised, or a new line is appended.
AddedItems(items, cart_item) ==
    LET existing_item ==
            FirstOf({i \in 1..Len(items) : items[i].product_id = cart_item.product_id})
    IN IF existing_item # 0
       THEN [items EXCEPT ![existing_item].quantity = @ + cart_item.quantity]
       ELSE Append(items, cart_item)

TotalAmount_kept(items, old_total) == old_total

\* total_amount as add_to_cart computes it from the new item list.
TotalAmount(items, old_total) == SumItems(items)

InsufficientStock_never(product_doc, quantity) == FALSE

\* The stock check of add_to_cart.
InsufficientStock(product_doc, quantity) == product_doc.stock_quantity < quantity

\* POST /cart/add up to the update_one: the product lookup, the stock check
\* and the cart lookup.  The two lookups are one step: they read different
\* collections and no step of another request writes both.
add_to_cart_read(s, cred, product_id, quantity) ==
    /\ Free(s)
    /\ \E a \in require_role({BUYER}, cred) :
          LET arg == [product_id |-> product_id, quantity |-> quantity]
              p == FindActiveProduct(product_id)
              c == FindCart(a.user.id)
              cart_doc == IF c = 0 THEN NewCart(a.user.id) ELSE carts[c]
              cart_item == [product_id |-> product_id,
                            product_name |-> products[p].name,
                            price |-> products[p].price,
                            quantity |-> quantity, seller_id |-> products[p].seller_id]
              items == AddedItems(cart_doc.items, cart_item)
          IN IF a.error # "ok"
             THEN /\ resp' = Response("add_to_cart", cred, arg, a.error)
                  /\ UNCHANGED inflight
             ELSE IF p = 0
             THEN /\ resp' = Response("add_to_cart", cred, arg, "Product not found")
                  /\ UNCHANGED inflight
             ELSE IF InsufficientStock(products[p], quantity)
             THEN /\ resp' = Response("add_to_cart", cred, arg, "Insufficient stock")
                  /\ UNCHANGED inflight
             ELSE /\ \A k \in 1..Len(items) :
                        /\ items[k].quantity <= MaxLineQty
                        /\ items[k].quantity >= -MaxLineQty
                  /\ inflight' = [inflight EXCEPT ![s] =
                        [op |-> "add_to_cart", pc |-> "update", cred |-> cred,
                         arg |-> arg, user_id |-> a.user.id, items |-> items,
                         total_amount |-> TotalAmount(items, cart_doc.total_amount)]]
                  /\ UNCHANGED resp
    /\ UNCHANGED <<store, tokens, now>>

add_to_cart_update_merged(s) ==
    /\ inflight[s].op = "add_to_cart"
    /\ LET r == inflight[s]
           c == FindCart(r.user_id)
           p == FindProduct(r.arg.product_id)
           cart_item == [product_id |-> r.arg.product_id,
                         product_name |-> products[p].name,
                         price |-> products[p].price,
                         quantity |-> r.arg.quantity, seller_id |-> products[p].seller_id]
           items == AddedItems(IF c = 0 THEN <<>> ELSE carts[c].items, cart_item)
       IN /\ carts' = IF c # 0
                      THEN [carts EXCEPT ![c].items = items,
                                         ![c].total_amount = SumItems(items)]
                      ELSE Append(carts, [user_id |-> r.user_id, items |-> items,
                                          total_amount |-> SumItems(items),
                                          has_id |-> FALSE])
          /\ resp' = Response("add_to_cart", r.cred, r.arg, "ok")
    /\ inflight' = [inflight EXCEPT ![s] = Idle]
    /\ UNCHANGED <<users, products, orders, tokens, now>>

\* POST /cart/add, the update_one with upsert=True: the first cart of the
\* user gets the new items and total; when there is none, a document with
\* only the filter and $set fields is inserted.
add_to_cart_update(s) ==
    /\ inflight[s].op = "add_to_cart"
    /\ LET r == inflight[s]
           c == FindCart(r.user_id)
       IN /\ carts' = IF c # 0
                      THEN [carts EXCEPT ![c].items = r.items,
                                         ![c].total_amount = r.total_amount]
                      ELSE Append(carts, [user_id |-> r.user_id, items |-> r.items,
                                          total_amount |-> r.total_amount,
                                          has_id |-> FALSE])
          /\ resp' = Response("add_to_cart", r.cred, r.arg, "ok")
    /\ inflight' = [inflight EXCEPT ![s] = Idle]
    /\ UNCHANGED <<users, products, orders, tokens, now>>

(****************************** orders ************************************)
EmptyItemsError_none == "ok"

\* order_data.items[0] on an empty list: IndexError, which no handler
\* catches; the request is answered 500.
EmptyItemsError == "Internal Server Error"

OrderSeller_last(items) == items[Len(items)].seller_id

\* seller_id=order_data.items[0].seller_id
OrderSeller(items) == items[1].seller_id

\* seller_name: "" unless db.users has a user with the seller's id.
SellerName(seller_id) ==
    LET i == FindUserById(seller_id)
    IN IF i = 0 THEN "" ELSE users[i].full_name

\* POST /orders up to the insert_one.  order_data.items[0] raises IndexError
\* on an empty list (an unhandled exception: 500).  The seller lookup reads
\* db.users and is one step with the insert.
create_order_insert(s, cred, order_data) ==
    /\ Free(s)
    /\ \E a \in require_role({BUYER}, cred) :
          IF a.error # "ok"
          THEN /\ resp' = Response("create_order", cred, order_data, a.error)
               /\ UNCHANGED <<orders, inflight>>
          ELSE IF order_data.items = <<>>
          THEN /\ resp' = Response("create_order", cred, order_data, EmptyItemsError)
               /\ UNCHANGED <<orders, inflight>>
          ELSE /\ Len(orders) < MaxOrders
               /\ orders' = Append(orders,
                     [id |-> Len(orders) + 1, buyer_id |-> a.user.id,
                      seller_id |-> OrderSeller(order_data.items),
                      seller_name |-> SellerName(OrderSeller(order_data.items)),
                      items |-> order_data.items,
                      total_amount |-> SumItems(order_data.items),
                      status |-> PENDING])
               /\ inflight' = [inflight EXCEPT ![s] =
                     [op |-> "create_order", pc |-> "clear_cart", cred |-> cred,
                      arg |-> order_data, user_id |-> a.user.id]]
               /\ UNCHANGED resp
    /\ UNCHANGED <<users, products, carts, tokens, now>>

\* The stock left of each product when the quantities of some lines are
\* taken from it.
RECURSIVE Decremented(_, _)
Decremented(coll, items) ==
    IF items = <<>> THEN coll
    ELSE LET p == FirstOf({i \in 1..Len(coll) : coll[i].id = Head(items).product_id})
             rest == Decremented(coll, Tail(items))
         IN IF p = 0 THEN rest
            ELSE [rest EXCEPT ![p].stock_quantity = @ - Head(items).quantity]

create_order_clear_cart_decrementing(s) ==
    /\ inflight[s].op = "create_order"
    /\ LET r == inflight[s]
           c == FindCart(r.user_id)
       IN /\ carts' = IF c # 0
                      THEN [carts EXCEPT ![c].items = <<>>, ![c].total_amount = 0]
                      ELSE carts
          /\ products' = Decremented(products, r.arg.items)
          /\ resp' = Response("create_order", r.cred, r.arg, "ok")
    /\ inflight' = [inflight EXCEPT ![s] = Idle]
    /\ UNCHANGED <<users, orders, tokens, now>>

create_order_clear_cart_skipped(s) ==
    /\ inflight[s].op = "create_order"
    /\ resp' = Response("create_order", inflight[s].cred, inflight[s].arg, "ok")
    /\ inflight' = [inflight EXCEPT ![s] = Idle]
    /\ UNCHANGED <<users, products, carts, orders, tokens, now>>

\* POST /orders, the update_one (no upsert) that clears the buyer's cart.
create_order_clear_cart(s) ==
    /\ inflight[s].op = "create_order"
    /\ LET r == inflight[s]
           c == FindCart(r.user_id)
       IN /\ carts' = IF c # 0
                      THEN [carts EXCEPT ![c].items = <<>>, ![c].total_amount = 0]
                      ELSE carts
          /\ resp' = Response("create_order", r.cred, r.arg, "ok")
    /\ inflight' = [inflight EXCEPT ![s] = Idle]
    /\ UNCHANGED <<users, products, orders, tokens, now>>

ListedOrders_all(current_user) == orders

\* The find() of get_orders: by buyer_id for a buyer, by seller_id for a
\* seller, unfiltered otherwise; to_list keeps the stored order.
ListedOrders(current_user) ==
    IF current_user.role = BUYER
    THEN SelectSeq(orders, LAMBDA o : o.buyer_id = current_user.id)
    ELSE IF current_user.role = SELLER
    THEN SelectSeq(orders, LAMBDA o : o.seller_id = current_user.id)
    ELSE orders

create_order_clear_cart_fails_undoing(s) ==
    /\ inflight[s].op = "create_order"
    /\ orders' = SubSeq(orders, 1, Len(orders) - 1)
    /\ resp' = Response("create_order", inflight[s].cred, inflight[s].arg,
                        "Internal Server Error")
    /\ inflight' = [inflight EXCEPT ![s] = Idle]
    /\ UNCHANGED <<users, products, carts, tokens, now>>

\* POST /orders when the update_one that clears the cart raises (the
\* database is unreachable, the write times out): the exception is not
\* caught, the request ends with a 500 and nothing is written.
create_order_clear_cart_fails(s) ==
    /\ inflight[s].op = "create_order"
    /\ resp' = Response("create_order", inflight[s].cred, inflight[s].arg,
                        "Internal Server Error")
    /\ inflight' = [inflight EXCEPT ![s] = Idle]
    /\ UNCHANGED <<store, tokens, now>>

\* GET /orders: any authenticated user; a read.
get_orders(cred) ==
    /\ \E a \in get_current_user(cred) :
          resp' = ResponseBody("get_orders", cred, <<>>, a.error,
                               IF a.error = "ok" THEN ListedOrders(a.user) ELSE <<>>)
    /\ UNCHANGED <<store, tokens, now, inflight>>

(******************************* admin ************************************)
\* GET /admin/users
get_all_users(cred) ==
    /\ \E a \in require_role({ADMIN}, cred) :
          resp' = Response("get_all_users", cred, <<>>, a.error)
    /\ UNCHANGED <<store, tokens, now, inflight>>

\* GET /admin/analytics
get_analytics(cred) ==
    /\ \E a \in require_role({ADMIN}, cred) :
          resp' = Response("get_analytics", cred, <<>>, a.error)
    /\ UNCHANGED <<store, tokens, now, inflight>>

(**************************** environment *********************************)
\* A day passes.
Tick ==
    /\ now < MaxTime
    /\ now' = now + 1
    /\ UNCHANGED <<store, tokens, inflight, resp>>

\* An account is deactivated (an admin action or self-deactivation; section
\* 3 of the specification).  No handler of server.py writes is_active.
DeactivateUser(id) ==
    /\ \E i \in 1..Len(users) :
          /\ users[i].id = id
          /\ users[i].is_active
          /\ users' = [users EXCEPT ![i].is_active = FALSE]
    /\ UNCHANGED <<products, carts, orders, tokens, now, inflight, resp>>

(************************** specifications ********************************)
\* The accounts of the scenarios that start from a populated database:
\* what five successful registrations leave in db.users.
FullNames == <<"Ada Admin", "Sam Seller", "Sol Seller", "Bea Buyer", "Bo Buyer">>

SeedUser(id, role) ==
    [id |-> id, email |-> <<"user", id>>, username |-> <<"name", id>>, role |-> role,
     full_name |-> FullNames[id], password |-> hash_password("pw1"), is_active |-> TRUE]

SeedUsers ==
    << SeedUser(1, ADMIN), SeedUser(2, SELLER), SeedUser(3, SELLER), SeedUser(4, BUYER),
       SeedUser(5, BUYER) >>

\* The token a seed user was sent when it registered at time 0.
SeedToken(id) == [sub |-> id, role |-> SeedUsers[id].role, exp |-> JWT_EXPIRATION_TIME, iat |-> 0]

InitCommon ==
    /\ products = <<>>
    /\ carts = <<>>
    /\ orders = <<>>
    /\ tokens = {}
    /\ now = 0
    /\ inflight = [s \in Slots |-> Idle]
    /\ resp = NoResponse

\* Registration on an empty database.
InitRegister ==
    /\ users = <<>>
    /\ InitCommon

NextRegister ==
    \/ \E s \in Slots, d \in UserCreates : register_find_email(s, d)
    \/ \E s \in Slots : register_find_username(s)
    \/ \E s \in Slots : register_insert(s)

SpecRegister == InitRegister /\ [][NextRegister]_vars

\* Token lifetime: two registered accounts, logins over nine days.
InitToken ==
    /\ users = SubSeq(SeedUsers, 1, 2)
    /\ InitCommon

LoginInputs ==
    [email : {SeedUsers[1].email, SeedUsers[2].email, <<"user", 0>>}, password : Passwords]

NextToken ==
    \/ \E d \in LoginInputs : login(d)
    \/ \E c \in Credentials : get_current_user_info(c)
    \/ \E id \in 1..2 : DeactivateUser(id)
    \/ Tick

SpecToken == InitToken /\ [][NextToken]_vars

\* The tokens the seed users hold.
SeedTokens(ids) == {SeedToken(id) : id \in ids}

\* Request bodies of POST /products and PUT /products/{id}.
ProductCreates ==
    { [name |-> "Widget", price |-> 2, stock_quantity |-> 1],
      [name |-> "Widget", price |-> -1, stock_quantity |-> -1] }

ProductUpdates ==
    { [name |-> None, price |-> Some(3), stock_quantity |-> None],
      [name |-> None, price |-> Some(-1), stock_quantity |-> Some(-2)] }

\* The admin and the two sellers.
CatalogCallers == SeedTokens({1, 2, 3})

\* The catalog: the four accounts, an empty catalog.
InitCatalog ==
    /\ users = SeedUsers
    /\ products = <<>>
    /\ carts = <<>>
    /\ orders = <<>>
    /\ tokens = SeedTokens(1..4)
    /\ now = 0
    /\ inflight = [s \in Slots |-> Idle]
    /\ resp = NoResponse

NextCatalog ==
    \/ \E c \in CatalogCallers, d \in ProductCreates : create_product(c, d)
    \/ \E c \in CatalogCallers, id \in 1..(MaxProducts + 1), d \in ProductUpdates :
          update_product(c, id, d)
    \/ \E c \in CatalogCallers, id \in 1..(MaxProducts + 1) : delete_product(c, id)

SpecCatalog == InitCatalog /\ [][NextCatalog]_vars

\* The cart and order pipeline: a buyer and a seller over two products.
SeedProducts ==
    << [id |-> 1, name |-> "Widget", price |-> 2, stock_quantity |-> 2, seller_id |-> 2,
        is_active |-> TRUE, updated_at |-> 0],
       [id |-> 2, name |-> "Gadget", price |-> 3, stock_quantity |-> 1, seller_id |-> 3,
        is_active |-> TRUE, updated_at |-> 0] >>

InitCart ==
    /\ users = SeedUsers
    /\ products = SeedProducts
    /\ carts = <<>>
    /\ orders = <<>>
    /\ tokens = SeedTokens({2, 4})
    /\ now = 0
    /\ inflight = [s \in Slots |-> Idle]
    /\ resp = NoResponse

Quantities == {-1, 0, 1, 2}

\* A line as a client sends it in POST /orders.
Line(product_id, price, quantity, seller_id) ==
    [product_id |-> product_id, product_name |-> SeedProducts[product_id].name,
     price |-> price, quantity |-> quantity,
     seller_id |-> seller_id]

OrderCreates ==
    { [items |-> <<>>],
      [items |-> <<Line(1, 2, 1, 2)>>],
      [items |-> <<Line(2, 3, 1, 3), Line(1, 2, 2, 2)>>] }

Buyer == SeedToken(4)
Seller == SeedToken(2)
OtherSeller == SeedToken(3)
OtherBuyer == SeedToken(5)

TwoLineOrder == [items |-> <<Line(2, 3, 1, 3), Line(1, 2, 2, 2)>>]

NextCart ==
    \/ \E s \in Slots : get_cart_find(s, Buyer)
    \/ \E s \in Slots : get_cart_insert(s)
    \/ \E s \in Slots, id \in 1..2, q \in {1} : add_to_cart_read(s, Buyer, id, q)
    \/ \E s \in Slots : add_to_cart_update(s)
    \/ \E s \in Slots : create_order_insert(s, Buyer, TwoLineOrder)
    \/ \E s \in Slots : create_order_clear_cart(s)

SpecCart == InitCart /\ [][NextCart]_vars

\* Add-to-cart one request at a time, over the inputs it accepts and
\* rejects, with the seller changing and withdrawing a product meanwhile.
NextAddItem ==
    \/ get_cart_find(1, Buyer)
    \/ get_cart_insert(1)
    \/ \E id \in 1..3, q \in Quantities : add_to_cart_read(1, Buyer, id, q)
    \/ add_to_cart_update(1)
    \/ \E d \in {[name |-> None, price |-> Some(3), stock_quantity |-> None]} :
          update_product(Seller, 1, d)
    \/ delete_product(OtherSeller, 2)

SpecAddItem == InitCart /\ [][NextAddItem]_vars

\* Listing orders: two buyers order from two sellers, one request at a
\* time, and every account and a caller without a token list the orders.
InitListOrders ==
    /\ users = SeedUsers
    /\ products = SeedProducts
    /\ carts = <<>>
    /\ orders = <<>>
    /\ tokens = SeedTokens(1..5)
    /\ now = 0
    /\ inflight = [s \in Slots |-> Idle]
    /\ resp = NoResponse

\* An order whose first line names a seller that is not a user.
UnknownSellerOrder == [items |-> <<Line(1, 2, 1, 9), Line(2, 3, 1, 3)>>]

NextListOrders ==
    \/ \E b \in {Buyer, OtherBuyer},
          d \in {[items |-> <<Line(1, 2, 1, 2)>>], TwoLineOrder, UnknownSellerOrder} :
          create_order_insert(1, b, d)
    \/ create_order_clear_cart(1)
    \/ \E c \in Credentials : get_orders(c)

SpecListOrders == InitListOrders /\ [][NextListOrders]_vars

\* The body of POST /orders of a client that orders what its cart holds.
CartOrder(cred) ==
    LET c == FindCart(cred.sub)
    IN [items |-> IF c = 0 THEN <<>> ELSE carts[c].items]

\* The last unit: two buyers put product 2, of which one unit is in stock,
\* in their carts and order what their carts hold, one request at a time.
InitOversell ==
    /\ users = SeedUsers
    /\ products = SeedProducts
    /\ carts = <<>>
    /\ orders = <<>>
    /\ tokens = {Buyer, OtherBuyer}
    /\ now = 0
    /\ inflight = [s \in Slots |-> Idle]
    /\ resp = NoResponse

NextOversell ==
    \/ \E b \in {Buyer, OtherBuyer} : add_to_cart_read(1, b, 2, 1)
    \/ add_to_cart_update(1)
    \/ \E b \in {Buyer, OtherBuyer} : create_order_insert(1, b, CartOrder(b))
    \/ create_order_clear_cart(1)

SpecOversell == InitOversell /\ [][NextOversell]_vars

\* An order that stops half way: the buyer fills its cart and orders what
\* it holds, and the write that clears the cart can fail.
NextOrderStops ==
    \/ add_to_cart_read(1, Buyer, 1, 1)
    \/ add_to_cart_update(1)
    \/ create_order_insert(1, Buyer, CartOrder(Buyer))
    \/ create_order_clear_cart(1)
    \/ create_order_clear_cart_fails(1)

SpecOrderStops == InitCart /\ [][NextOrderStops]_vars

\* The whole authenticated API: an admin, a seller and a buyer, each with
\* its token, and requests without a token; one request at a time.  One
\* product is created, then changed, withdrawn, put in the cart and ordered.
Init ==
    /\ users = SeedUsers
    /\ products = <<>>
    /\ carts = <<>>
    /\ orders = <<>>
    /\ tokens = SeedTokens({1, 2, 4})
    /\ now = 0
    /\ inflight = [s \in Slots |-> Idle]
    /\ resp = NoResponse

TheProduct == [name |-> "Widget", price |-> 2, stock_quantity |-> 1]
ThePriceChange == [name |-> Some("Widget 2"), price |-> Some(3), stock_quantity |-> None]
TheOrder == [items |-> <<Line(1, 2, 1, 2)>>]

Next ==
    \/ \E c \in Credentials : get_current_user_info(c)
    \/ \E c \in Credentials : products = <<>> /\ create_product(c, TheProduct)
    \/ \E c \in Credentials : update_product(c, 1, ThePriceChange)
    \/ \E c \in Credentials : delete_product(c, 1)
    \/ \E c \in Credentials : get_cart_find(1, c)
    \/ get_cart_insert(1)
    \/ \E c \in Credentials : add_to_cart_read(1, c, 1, 1)
    \/ add_to_cart_update(1)
    \/ \E c \in Credentials : create_order_insert(1, c, TheOrder)
    \/ create_order_clear_cart(1)
    \/ \E c \in Credentials : get_orders(c)
    \/ \E c \in Credentials : get_all_users(c)
    \/ \E c \in Credentials : get_analytics(c)

Spec == Init /\ [][Next]_vars

\* The same API when accounts are deactivated meanwhile.
NextDeactivated ==
    \/ Next
    \/ \E id \in {2, 4} : DeactivateUser(id)

SpecDeactivated == Init /\ [][NextDeactivated]_vars

\* Reading the catalog while products are changed and withdrawn: anyone
\* lists and fetches products, the sellers change and withdraw their
\* product, also one that is withdrawn already or does not exist, and the
\* buyer adds to its cart, one request at a time.
NextCatalogRead ==
    \/ \E skip \in {0, 1}, limit \in {1, 20}, max_price \in {None, Some(2)} :
          get_products(skip, limit, None, max_price)
    \/ \E id \in 1..3 : get_product(id)
    \/ \E id \in {1, 3} : update_product(Seller, id, ThePriceChange)
    \/ \E id \in {1, 3} : delete_product(Seller, id)
    \/ delete_product(OtherSeller, 2)
    \/ \E id \in 1..2 : add_to_cart_read(1, Buyer, id, 1)
    \/ add_to_cart_update(1)

SpecCatalogRead == InitCart /\ [][NextCatalogRead]_vars

\* The bodies of PUT /products/{id}: each of the three fields there or not.
ProductUpdateBodies ==
    [name : {None, Some("Widget 2")}, price : {None, Some(3)},
     stock_quantity : {None, Some(5)}]

\* Updates of a product by its seller over the days, before and after the
\* seller withdraws it.
NextUpdate ==
    \/ \E d \in ProductUpdateBodies : update_product(Seller, 1, d)
    \/ delete_product(Seller, 1)
    \/ Tick

SpecUpdate == InitCart /\ [][NextUpdate]_vars

\* Ordering, one request at a time: the buyer fills its cart and orders,
\* with the lines of its cart, with a line at the first price of product 1
\* or with no line, while the seller raises the price of the product and
\* withdraws it.
NextOrder ==
    \/ add_to_cart_read(1, Buyer, 1, 1)
    \/ add_to_cart_update(1)
    \/ \E d \in {TheOrder, CartOrder(Buyer), [items |-> <<>>]} :
          create_order_insert(1, Buyer, d)
    \/ create_order_clear_cart(1)
    \/ update_product(Seller, 1, ThePriceChange)
    \/ delete_product(Seller, 1)

SpecOrder == InitCart /\ [][NextOrder]_vars

(****************************** properties ********************************)
\* The user document a token's subject resolves to.
UserById(id) ==
    LET i == FindUserById(id)
    IN IF i = 0 THEN NoUser ELSE users[i]

Forbidden(error) == StatusCode(error) = 403

\* C1: in every stored state, each cart's total_amount equals the sum of
\* price * quantity over its items, whatever get-cart, add-to-cart and
\* create-order requests have run and however their steps interleaved.
C1_CartTotalIsSum ==
    \A i \in 1..Len(carts) : carts[i].total_amount = SumItems(carts[i].items)

\* A cart holding two lines again after an order was created and the cart
\* cleared.
C1_Witness ==
    /\ Len(orders) >= 1
    /\ \E i \in 1..Len(carts) :
          /\ Len(carts[i].items) = 2
          /\ carts[i].total_amount = 5

\* C2: update and delete of a product succeed only for an admin or the
\* seller that owns it; a seller that does not own it gets 403 and the
\* product is unchanged; every change of a product document is made by a
\* successful update or delete of its owner or of an admin.
C2_OwnerOrAdminOnly ==
    [][ LET caller == UserById(resp'.cred.sub)
            i == FindProduct(resp'.arg.product_id)
            mayChange == \/ caller.role = ADMIN
                         \/ caller.role = SELLER /\ products[i].seller_id = caller.id
        IN /\ (Responded /\ resp'.op \in {"update_product", "delete_product"}) =>
                /\ resp'.error = "ok" => (i # 0 /\ mayChange)
                /\ (i # 0 /\ caller.role = SELLER /\ products[i].seller_id # caller.id) =>
                      (Forbidden(resp'.error) /\ products' = products)
           /\ (\E k \in 1..Len(products) : products'[k] # products[k]) =>
                /\ Responded
                /\ resp'.op \in {"update_product", "delete_product"}
                /\ resp'.error = "ok"
                /\ mayChange
                /\ \A k \in 1..Len(products) : products'[k] # products[k] => k = i
      ]_vars

\* A seller was refused the update of a product of another seller.
C2_Witness ==
    /\ resp.op = "update_product"
    /\ resp.error = "Not authorized to update this product"
    /\ resp.cred.role = SELLER
    /\ \E k \in 1..Len(products) :
          /\ products[k].id = resp.arg.product_id
          /\ products[k].seller_id \notin {resp.cred.sub, 1}

\* C3: a request carrying a signed, unexpired token of a user whose
\* is_active is false is rejected as deactivated and changes nothing, and
\* no such request gets as far as an await.
C3_DeactivatedRejected ==
    [][ /\ (Responded /\ inflight' = inflight /\ resp'.cred # NoToken
             /\ ~UserById(resp'.cred.sub).is_active) =>
                (resp'.error = "Account deactivated" /\ store' = store)
        /\ \A s \in Slots :
              (inflight[s] = Idle /\ inflight'[s] # Idle) =>
                  UserById(inflight'[s].cred.sub).is_active
      ]_vars

\* The operations behind require_role and the roles the claim allows each.
AllowedRoles(op) ==
    CASE op \in {"create_product", "update_product", "delete_product"} -> {SELLER, ADMIN}
      [] op \in {"get_cart", "add_to_cart", "create_order"} -> {BUYER}
      [] op \in {"get_all_users", "get_analytics"} -> {ADMIN}
      [] OTHER -> UserRole

AuthenticatedOps ==
    {"me", "create_product", "update_product", "delete_product", "get_cart",
     "add_to_cart", "create_order", "get_orders", "get_all_users", "get_analytics"}

\* C4: a role-restricted operation called with a valid token of a role
\* outside its allowed set answers 403, an authenticated operation called
\* without a token answers "Not authenticated", in both cases no document
\* changes; and no such request gets as far as an await or a write.
C4_WrongRoleOrNoTokenRejected ==
    [][ /\ (Responded /\ resp'.op \in AuthenticatedOps) =>
              /\ resp'.cred = NoToken =>
                    (resp'.error = "Not authenticated" /\ store' = store)
              /\ (resp'.cred # NoToken
                   /\ UserById(resp'.cred.sub).role \notin AllowedRoles(resp'.op)) =>
                    (resp'.error = "Insufficient permissions"
                     /\ Forbidden(resp'.error) /\ store' = store)
        /\ \A s \in Slots :
              inflight'[s] # Idle =>
                  /\ inflight'[s].cred # NoToken
                  /\ UserById(inflight'[s].cred.sub).role \in AllowedRoles(inflight'[s].op)
      ]_vars

\* A seller was refused add-to-cart for a product that exists.
C4_Witness ==
    /\ resp.op = "add_to_cart"
    /\ resp.cred.role = SELLER
    /\ resp.error = "Insufficient permissions"
    /\ Len(products) = 1
    /\ products[1].is_active

\* C5 as stated: no operation answers an admin with 403.
C5_AdminNeverForbidden ==
    (resp.cred # NoToken /\ UserById(resp.cred.sub).role = ADMIN) => ~Forbidden(resp.error)

BuyerOnlyOps == {"get_cart", "add_to_cart", "create_order"}

\* C5 as amended: an admin is answered 403 by the buyer-only operations
\* (get-cart, add-to-cart, create-order) and by no other operation.
C5_AdminForbiddenOnlyBuyerOps ==
    (resp.cred # NoToken /\ UserById(resp.cred.sub).role = ADMIN) =>
        (Forbidden(resp.error) <=> resp.op \in BuyerOnlyOps)

\* An admin changed the price of a product a seller owns.
C5_Witness ==
    /\ resp.op = "update_product"
    /\ resp.cred.role = ADMIN
    /\ resp.error = "ok"
    /\ products[1].seller_id = 2
    /\ products[1].price = 3

\* C6: a token issued at time t authenticates as its user (same id and
\* role) at every time before t + 7 days, whatever has happened since, and
\* is rejected as expired at every time after t + 7 days.
C6_TokenLifetime ==
    \A t \in tokens :
        /\ now < t.iat + JWT_EXPIRATION_TIME =>
              \E u \in {users[i] : i \in 1..Len(users)} :
                  /\ u.id = t.sub
                  /\ u.role = t.role
                  /\ get_current_user(t) = {[error |-> "ok", user |-> u]}
        /\ now > t.iat + JWT_EXPIRATION_TIME =>
              get_current_user(t) = {[error |-> "Token expired", user |-> NoUser]}

\* GET /auth/me answered "Token expired" for a token more than 7 days old.
C6_Witness ==
    /\ resp.op = "me"
    /\ resp.error = "Token expired"
    /\ resp.cred \in tokens
    /\ now > resp.cred.iat + JWT_EXPIRATION_TIME

\* C7: a register request whose e-mail or username is that of a user
\* stored when the request arrives answers 400 (already registered / taken),
\* inserts no user and issues no token.
C7_DuplicateRegistrationRejected ==
    [][ (Responded /\ resp'.op = "register") =>
          LET d == resp'.arg.data
              dup == \E i \in 1..resp'.arg.arrived :
                        users[i].email = d.email \/ users[i].username = d.username
          IN dup => /\ resp'.error \in {"Email already registered",
                                         "Username already taken"}
                    /\ StatusCode(resp'.error) = 400
                    /\ users' = users
                    /\ tokens' = tokens
      ]_vars

\* The second registration of a stored e-mail was refused.
C7_Witness ==
    /\ resp.op = "register"
    /\ resp.error = "Email already registered"
    /\ Len(users) = 1
    /\ users[1].email = resp.arg.data.email
    /\ users[1].username # resp.arg.data.username

\* C8: no two user documents share an e-mail or a username.
C8_UniqueEmailAndUsername ==
    \A i, j \in 1..Len(users) :
        i # j => (users[i].email # users[j].email /\ users[i].username # users[j].username)

\* C9: every product has stock_quantity >= 0 and price >= 0.
C9_NonNegativePriceAndStock ==
    \A i \in 1..Len(products) :
        products[i].price >= 0 /\ products[i].stock_quantity >= 0

\* C10: every line of every cart has quantity >= 1.
C10_QuantityAtLeastOne ==
    \A i \in 1..Len(carts) :
        \A k \in 1..Len(carts[i].items) : carts[i].items[k].quantity >= 1

\* The lines of the first cart of a user in a cart collection: what
\* get-cart shows the user (no lines when there is no cart).
CartItems(coll, user_id) ==
    LET i == FirstOf({k \in 1..Len(coll) : coll[k].user_id = user_id})
    IN IF i = 0 THEN <<>> ELSE coll[i].items

\* The index of the first line of a product in a list of lines, 0 if none.
LineOf(items, product_id) ==
    FirstOf({k \in 1..Len(items) : items[k].product_id = product_id})

\* C11: a successful add-to-cart of a product that has a line in the
\* buyer's cart raises that line's quantity by the requested quantity and
\* leaves the number of lines and every other line as they were; of a
\* product that has no line, it appends exactly one line, of that product
\* and quantity.  In every state a cart has at most one line per product.
C11_AddRaisesOrAppendsOneLine ==
    [][ /\ (Responded /\ resp'.op = "add_to_cart" /\ resp'.error = "ok") =>
              LET old == CartItems(carts, resp'.cred.sub)
                  new == CartItems(carts', resp'.cred.sub)
                  k == LineOf(old, resp'.arg.product_id)
              IN IF k # 0
                 THEN /\ Len(new) = Len(old)
                      /\ new[k].quantity = old[k].quantity + resp'.arg.quantity
                      /\ \A j \in 1..Len(old) : j # k => new[j] = old[j]
                 ELSE /\ Len(new) = Len(old) + 1
                      /\ SubSeq(new, 1, Len(old)) = old
                      /\ new[Len(new)].product_id = resp'.arg.product_id
                      /\ new[Len(new)].quantity = resp'.arg.quantity
        /\ \A i \in 1..Len(carts') :
              \A j, k \in 1..Len(carts'[i].items) :
                  carts'[i].items[j].product_id = carts'[i].items[k].product_id => j = k
      ]_vars

\* The second add of product 2 raised its line to 2 in a cart of two lines
\* (a single request for 2 units of it is refused: its stock is 1).
C11_Witness ==
    /\ resp.op = "add_to_cart"
    /\ resp.error = "ok"
    /\ resp.arg = [product_id |-> 2, quantity |-> 1]
    /\ Len(carts) = 1
    /\ Len(carts[1].items) = 2
    /\ carts[1].items[LineOf(carts[1].items, 2)].quantity = 2

\* C12: an add-to-cart of a buyer is answered "Product not found" (404)
\* when no active product has the id, whatever the quantity, and
\* "Insufficient stock" (400) when the product is active and the quantity
\* exceeds its stock_quantity; such an answer leaves every collection as it
\* was, so no cart is created; and no such request reaches the cart write.
C12_AddFailsWithoutChange ==
    [][ /\ (Responded /\ resp'.op = "add_to_cart") =>
              LET p == FindActiveProduct(resp'.arg.product_id)
                  answered == inflight' = inflight
                  authorized == resp'.error \notin
                      {"Not authenticated", "Token expired", "User not found",
                       "Insufficient permissions"}
              IN /\ (answered /\ authorized /\ p = 0) =>
                        (resp'.error = "Product not found" /\ StatusCode(resp'.error) = 404)
                 /\ (answered /\ authorized /\ p # 0) =>
                        /\ products[p].stock_quantity < resp'.arg.quantity
                        /\ resp'.error = "Insufficient stock"
                        /\ StatusCode(resp'.error) = 400
                 /\ resp'.error \in {"Product not found", "Insufficient stock"} =>
                        (answered /\ store' = store)
        /\ \A s \in Slots :
              (inflight[s] = Idle /\ inflight'[s] # Idle /\ inflight'[s].op = "add_to_cart") =>
                  LET p == FindActiveProduct(inflight'[s].arg.product_id)
                  IN /\ p # 0
                     /\ products[p].stock_quantity >= inflight'[s].arg.quantity
      ]_vars

\* Two units of the withdrawn product 2 (stock 1) were asked for by a buyer
\* without a cart: the answer is "Product not found" and there is no cart.
C12_Witness ==
    /\ resp.op = "add_to_cart"
    /\ resp.error = "Product not found"
    /\ resp.arg = [product_id |-> 2, quantity |-> 2]
    /\ ~products[2].is_active
    /\ products[2].stock_quantity = 1
    /\ carts = <<>>

\* The sum of price * quantity over a list of lines, first line first.
RECURSIVE LineTotals(_)
LineTotals(items) ==
    IF items = <<>> THEN 0
    ELSE Head(items).price * Head(items).quantity + LineTotals(Tail(items))

\* A create-order request got past its checks in this step.
OrderAccepted(s) ==
    inflight[s] = Idle /\ inflight'[s] # Idle /\ inflight'[s].op = "create_order"

\* C13: a create-order of buyer b with lines L that succeeds appends one
\* order to db.orders, with buyer b, status pending, the lines L and the
\* total sum(price * quantity) over L with the prices the caller sent;
\* nothing else adds an order; and when it answers, with no other request
\* of b running, b's cart has no lines and total 0.
C13_OrderPersistedAndCartCleared ==
    [][ /\ \A s \in Slots :
              OrderAccepted(s) =>
                  LET o == orders'[Len(orders')]
                  IN /\ Len(orders') = Len(orders) + 1
                     /\ SubSeq(orders', 1, Len(orders)) = orders
                     /\ o.buyer_id = inflight'[s].cred.sub
                     /\ o.status = PENDING
                     /\ o.items = inflight'[s].arg.items
                     /\ o.total_amount = LineTotals(inflight'[s].arg.items)
        /\ orders' # orders => \E s \in Slots : OrderAccepted(s)
        /\ (Responded /\ resp'.op = "create_order" /\ resp'.error = "ok") =>
              /\ \E i \in 1..Len(orders') :
                    /\ orders'[i].buyer_id = resp'.cred.sub
                    /\ orders'[i].items = resp'.arg.items
              /\ \A i \in 1..Len(carts') :
                    carts'[i].user_id = resp'.cred.sub =>
                        (carts'[i].items = <<>> /\ carts'[i].total_amount = 0)
      ]_vars

\* The buyer's order of one unit at price 2 was answered after the price
\* of the product had been raised to 3: the order's total is 2, and the
\* cart add-to-cart had created is empty.
C13_Witness ==
    /\ resp.op = "create_order"
    /\ resp.error = "ok"
    /\ resp.arg = TheOrder
    /\ products[1].price = 3
    /\ Len(orders) = 1
    /\ orders[1].buyer_id = resp.cred.sub
    /\ orders[1].total_amount = 2
    /\ Len(carts) = 1
    /\ carts[1] = [user_id |-> resp.cred.sub, items |-> <<>>, total_amount |-> 0,
                   has_id |-> FALSE]

\* C14: no step changes or removes an order that is stored; in every state
\* each order's total_amount is the sum of price * quantity over its own
\* lines and its status is pending.
C14_OrdersImmutable ==
    [][ /\ Len(orders') >= Len(orders)
        /\ \A i \in 1..Len(orders) : orders'[i] = orders[i]
        /\ \A i \in 1..Len(orders') :
              /\ orders'[i].total_amount = LineTotals(orders'[i].items)
              /\ orders'[i].status = PENDING
      ]_vars

\* Two orders are stored, the price of the product they name has been
\* raised to 3 and the product withdrawn, and the buyer's cart holds a line
\* at the new price: the first order still has total 2.
C14_Witness ==
    /\ Len(orders) = 2
    /\ orders[1].total_amount = 2
    /\ products[1].price = 3
    /\ ~products[1].is_active
    /\ carts # <<>>
    /\ carts[1].items # <<>>
    /\ carts[1].items[1].price = 3

\* The orders a user takes part in as get_orders reads the roles: the
\* indices of the orders it buys (a buyer), sells (a seller), or all.
OwnOrders(user) ==
    {i \in 1..Len(orders) :
        \/ user.role = BUYER /\ orders[i].buyer_id = user.id
        \/ user.role = SELLER /\ orders[i].seller_id = user.id
        \/ user.role = ADMIN}

\* C15: a successful order listing returns exactly the stored orders whose
\* buyer_id is the caller (a buyer), whose seller_id is the caller (a
\* seller), or all of them (an admin), each once; a buyer or seller is
\* never returned an order of which it is neither buyer nor recorded
\* seller; and the listing changes nothing.
C15_ListsOwnOrdersOnly ==
    [][ (Responded /\ resp'.op = "get_orders") =>
          /\ store' = store
          /\ tokens' = tokens
          /\ inflight' = inflight
          /\ resp'.error = "ok" =>
                LET caller == UserById(resp'.cred.sub)
                    listed == resp'.body
                IN /\ {listed[k] : k \in 1..Len(listed)} =
                          {orders[i] : i \in OwnOrders(caller)}
                   /\ Len(listed) = Cardinality(OwnOrders(caller))
                   /\ caller.role \in {BUYER, SELLER} =>
                          \A k \in 1..Len(listed) :
                              \/ listed[k].buyer_id = caller.id
                              \/ listed[k].seller_id = caller.id
      ]_vars

\* Seller 2 listed its orders while two orders of different buyers were
\* stored, one recorded for seller 2 and one recorded for seller 3 that
\* has a line of seller 2: it was returned the first only.
C15_Witness ==
    /\ resp.op = "get_orders"
    /\ resp.error = "ok"
    /\ resp.cred = Seller
    /\ Len(orders) = 2
    /\ orders[1].buyer_id # orders[2].buyer_id
    /\ orders[1].seller_id = 3
    /\ orders[1].items[2].seller_id = 2
    /\ orders[2].seller_id = 2
    /\ resp.body = <<orders[2]>>

\* The quantity of a product in a list of lines, and in all the lines of a
\* list of orders.
RECURSIVE LineQuantity(_, _)
LineQuantity(items, product_id) ==
    IF items = <<>> THEN 0
    ELSE (IF Head(items).product_id = product_id THEN Head(items).quantity ELSE 0)
         + LineQuantity(Tail(items), product_id)

RECURSIVE OrderedQuantity(_, _)
OrderedQuantity(coll, product_id) ==
    IF coll = <<>> THEN 0
    ELSE LineQuantity(Head(coll).items, product_id)
         + OrderedQuantity(Tail(coll), product_id)

\* C16: create-order checks every line against the stock of its product
\* and takes the ordered quantity from it: whenever no create-order is
\* under way, each product's stock_quantity is what it started with less
\* the quantity ordered of it, and so no more is ordered than there was.
C16_OrdersTakeFromStock ==
    (\A s \in Slots : inflight[s].op # "create_order") =>
        \A p \in 1..Len(products) :
            /\ products[p].stock_quantity =
                   SeedProducts[p].stock_quantity - OrderedQuantity(orders, products[p].id)
            /\ OrderedQuantity(orders, products[p].id) <= SeedProducts[p].stock_quantity

\* C17: no step of create-order changes a product: the stock add-to-cart
\* checks against is never lowered by an order.
C17_OrderLeavesStock ==
    [][ ((\E s \in Slots : OrderAccepted(s)) \/ (Responded /\ resp'.op = "create_order")) =>
            products' = products
      ]_vars

\* Oversell: one unit of product 2 is in stock, both buyers passed the
\* stock check with it, and each has an order for one unit: two units are
\* ordered.
C17_Witness ==
    /\ products[2].stock_quantity = 1
    /\ Len(orders) = 2
    /\ orders[1].buyer_id # orders[2].buyer_id
    /\ \A i \in 1..2 :
          /\ Len(orders[i].items) = 1
          /\ orders[i].items[1].product_id = 2
          /\ orders[i].items[1].quantity = 1
    /\ OrderedQuantity(orders, 2) > products[2].stock_quantity
    /\ \A s \in Slots : inflight[s] = Idle

\* C18: the write of an add-to-cart replaces the whole line list of the
\* buyer's cart by the list the request built from the cart it had read,
\* whatever another request of the buyer has written since: a line or an
\* increment written in between is not in the cart afterwards.
C18_LastWriteWins ==
    [][ \A s \in Slots :
          (inflight[s].op = "add_to_cart" /\ inflight'[s] = Idle) =>
              /\ Responded /\ resp'.error = "ok"
              /\ CartItems(carts', inflight[s].user_id) = inflight[s].items
              /\ \A k \in 1..Len(CartItems(carts, inflight[s].user_id)) :
                    LET line == CartItems(carts, inflight[s].user_id)[k]
                    IN LineOf(inflight[s].items, line.product_id) = 0 =>
                          LineOf(CartItems(carts', inflight[s].user_id), line.product_id) = 0
      ]_vars

\* Two adds of the buyer both read the empty cart; the add of product 1
\* has been answered and its line is in the cart; the add of product 2 is
\* at its write with a list of one line, product 2 only.
C18_Witness ==
    /\ resp.op = "add_to_cart"
    /\ resp.error = "ok"
    /\ resp.arg.product_id = 1
    /\ LineOf(CartItems(carts, resp.cred.sub), 1) # 0
    /\ inflight[1] = Idle
    /\ inflight[2].op = "add_to_cart"
    /\ inflight[2].cred = resp.cred
    /\ inflight[2].arg.product_id = 2
    /\ Len(inflight[2].items) = 1
    /\ LineOf(inflight[2].items, 1) = 0
    /\ orders = <<>>

\* C19: no two cart documents have the same user_id, whatever get-cart
\* and add-to-cart requests of a buyer have run and however their steps
\* interleaved.
C19_OneCartPerBuyer ==
    \A i, j \in 1..Len(carts) : carts[i].user_id = carts[j].user_id => i = j

\* C20: a login is answered 401 when no user has the e-mail, when the
\* password is not the one of the user that has it, and when that user is
\* deactivated; otherwise it is answered with a token whose subject and
\* role are the id and role of that user; and no login changes a document.
C20_LoginChecksCredentials ==
    [][ (Responded /\ resp'.op = "login") =>
          LET i == FirstOf({k \in 1..Len(users) : users[k].email = resp'.arg.email})
              refused == \/ i = 0
                         \/ users[i].password.bcrypt # resp'.arg.password
                         \/ ~users[i].is_active
          IN /\ store' = store
             /\ refused => /\ StatusCode(resp'.error) = 401
                            /\ tokens' = tokens
             /\ ~refused => /\ resp'.error = "ok"
                             /\ resp'.body.access_token.sub = users[i].id
                             /\ resp'.body.access_token.role = users[i].role
                             /\ tokens' \subseteq tokens \union {resp'.body.access_token}
      ]_vars

\* The login of the deactivated seller with its password was refused
\* ("Account deactivated") and no token is out.
C20_Witness ==
    /\ resp.op = "login"
    /\ resp.error = "Account deactivated"
    /\ resp.arg = [email |-> SeedUsers[2].email, password |-> "pw1"]
    /\ ~users[2].is_active
    /\ users[1].is_active
    /\ tokens = {}

\* C21: create-order stores the order in one step and clears the cart in a
\* later one: the step that stores the order leaves the carts as they are,
\* the step that ends the request (the clearing write, or its failure)
\* finds the order stored and leaves the orders as they are, and no step
\* takes a stored order back.
C21_OrderStoredBeforeCartCleared ==
    [][ /\ \A s \in Slots :
              /\ OrderAccepted(s) => carts' = carts
              /\ (inflight[s].op = "create_order" /\ inflight'[s] = Idle) =>
                    /\ orders' = orders
                    /\ \E i \in 1..Len(orders) :
                          /\ orders[i].buyer_id = inflight[s].user_id
                          /\ orders[i].items = inflight[s].arg.items
        /\ Len(orders') >= Len(orders)
        /\ \A i \in 1..Len(orders) : orders'[i] = orders[i]
      ]_vars

\* The order of a cart of two units of product 1 ended with a 500 at the
\* clearing write: the order is stored, and the cart still holds the line
\* and its total.
C21_Witness ==
    /\ resp.op = "create_order"
    /\ resp.error = "Internal Server Error"
    /\ Len(resp.arg.items) = 1
    /\ \A s \in Slots : inflight[s] = Idle
    /\ Len(orders) = 1
    /\ orders[1].buyer_id = resp.cred.sub
    /\ orders[1].items = resp.arg.items
    /\ Len(carts) = 1
    /\ carts[1].user_id = resp.cred.sub
    /\ carts[1].items = orders[1].items
    /\ carts[1].total_amount = 4

\* C22: when an add-to-cart of a buyer writes onto a cart that a
\* create-order of the buyer has cleared, the cart it leaves has the one
\* line of the added product, with the requested quantity: nothing that
\* was in the cart before the clear is in it.
C22_ClearedLinesStayCleared ==
    [][ \A s \in Slots :
          (/\ inflight[s].op = "add_to_cart"
           /\ inflight'[s] = Idle
           /\ FindCart(inflight[s].user_id) # 0
           /\ CartItems(carts, inflight[s].user_id) = <<>>) =>
              LET new == CartItems(carts', inflight[s].user_id)
              IN /\ Len(new) = 1
                 /\ new[1].product_id = inflight[s].arg.product_id
                 /\ new[1].quantity = inflight[s].arg.quantity
      ]_vars

\* The total of the first cart of a user (0 when there is no cart).
CartTotal(coll, user_id) ==
    LET i == FirstOf({k \in 1..Len(coll) : coll[k].user_id = user_id})
    IN IF i = 0 THEN 0 ELSE coll[i].total_amount

\* C23: the order a create-order stores has the lines and the total of the
\* buyer's stored cart at that moment.
C23_OrderIsTheCart ==
    [][ \A s \in Slots :
          OrderAccepted(s) =>
              LET o == orders'[Len(orders')]
              IN /\ o.items = CartItems(carts, o.buyer_id)
                 /\ o.total_amount = CartTotal(carts, o.buyer_id)
      ]_vars

\* C24: the order a create-order stores has the seller_id of the first line
\* of the request, and as seller_name the full name of the user with that
\* id, or "" when there is no such user; and a create-order of a buyer with
\* at least one line is never refused, whoever the first line names.
C24_SellerOfFirstLine ==
    [][ /\ \A s \in Slots :
              OrderAccepted(s) =>
                  LET o == orders'[Len(orders')]
                      first == Head(inflight'[s].arg.items)
                      sellers == {k \in 1..Len(users) : users[k].id = first.seller_id}
                  IN /\ o.seller_id = first.seller_id
                     /\ sellers = {} => o.seller_name = ""
                     /\ \A k \in sellers : o.seller_name = users[k].full_name
        /\ (/\ Responded
            /\ resp'.op = "create_order"
            /\ resp'.arg.items # <<>>
            /\ UserById(resp'.cred.sub).role = BUYER) => resp'.error = "ok"
      ]_vars

\* Two orders are stored and answered: one whose first line is of seller 3
\* and second line of seller 2, recorded for seller 3 under its name, and
\* one whose first line names a seller 9 that is no user, recorded for 9
\* with an empty seller name.
C24_Witness ==
    /\ resp.op = "create_order"
    /\ resp.error = "ok"
    /\ resp.arg = UnknownSellerOrder
    /\ Len(orders) = 2
    /\ orders[1].items = TwoLineOrder.items
    /\ orders[1].seller_id = 3
    /\ orders[1].seller_name = "Sol Seller"
    /\ orders[2].items = UnknownSellerOrder.items
    /\ orders[2].seller_id = 9
    /\ orders[2].seller_name = ""

\* C25: a create-order with an empty list of lines is refused (a 500),
\* stores no order and leaves every cart, and every other document, as it
\* was; no such request gets as far as a write.
C25_EmptyOrderRefused ==
    [][ /\ (/\ Responded
            /\ resp'.op = "create_order"
            /\ resp'.arg.items = <<>>
            /\ UserById(resp'.cred.sub).role = BUYER) =>
                /\ resp'.error # "ok"
                /\ StatusCode(resp'.error) = 500
                /\ store' = store
                /\ inflight' = inflight
        /\ \A s \in Slots : OrderAccepted(s) => inflight'[s].arg.items # <<>>
      ]_vars

\* A create-order without lines was answered 500 while the buyer's cart
\* holds a line: the cart still holds it and no order is stored.
C25_Witness ==
    /\ resp.op = "create_order"
    /\ resp.arg.items = <<>>
    /\ resp.error = "Internal Server Error"
    /\ orders = <<>>
    /\ Len(carts) = 1
    /\ carts[1].user_id = resp.cred.sub
    /\ carts[1].items # <<>>
    /\ carts[1].total_amount > 0

\* C26: after a successful add-to-cart of a product, the quantity of the
\* product's line in the buyer's cart is at most the product's
\* stock_quantity (which no step between the request's stock check and
\* its answer changes).
C26_LineWithinStock ==
    [][ (Responded /\ resp'.op = "add_to_cart" /\ resp'.error = "ok") =>
          LET new == CartItems(carts', resp'.cred.sub)
              k == LineOf(new, resp'.arg.product_id)
              p == FindProduct(resp'.arg.product_id)
          IN new[k].quantity <= products[p].stock_quantity
      ]_vars

\* C27: the product list and get-product return active products only, and
\* add-to-cart of a product that is not active is answered "Product not
\* found"; no step makes a withdrawn product active again, so this holds in
\* every state after the withdrawal; update and delete find a withdrawn
\* product and answer "Product not found" only when no product has the id.
C27_OnlyActiveProductsShown ==
    [][ /\ (Responded /\ resp'.op = "get_products") =>
              \A k \in 1..Len(resp'.body) :
                  \E i \in 1..Len(products) :
                      products[i] = resp'.body[k] /\ products[i].is_active
        /\ (Responded /\ resp'.op = "get_product") =>
              LET i == FindProduct(resp'.arg.product_id)
              IN IF i # 0 /\ products[i].is_active
                 THEN resp'.error = "ok" /\ resp'.body = products[i]
                 ELSE resp'.error = "Product not found"
        /\ (Responded /\ resp'.op = "add_to_cart" /\ inflight' = inflight) =>
              LET i == FindProduct(resp'.arg.product_id)
              IN (i = 0 \/ ~products[i].is_active) => resp'.error = "Product not found"
        /\ \A s \in Slots :
              (inflight[s] = Idle /\ inflight'[s] # Idle /\ inflight'[s].op = "add_to_cart") =>
                  products[FindProduct(inflight'[s].arg.product_id)].is_active
        /\ \A i \in 1..Len(products) : ~products[i].is_active => ~products'[i].is_active
        /\ (Responded /\ resp'.op \in {"update_product", "delete_product"}
             /\ UserById(resp'.cred.sub).role \in {SELLER, ADMIN}) =>
              (resp'.error = "Product not found" <=> FindProduct(resp'.arg.product_id) = 0)
      ]_vars

\* Product 1 is withdrawn and was then updated by its seller (it has the
\* new price), and the product list that was just returned, with room for
\* twenty products and no price bound, is the other product alone.
C27_Witness ==
    /\ ~products[1].is_active
    /\ products[1].price = 3
    /\ products[2].is_active
    /\ resp.op = "get_products"
    /\ resp.arg = [skip |-> 0, limit |-> 20, min_price |-> None, max_price |-> None]
    /\ resp.body = <<products[2]>>

\* C28: an update or a withdrawal of a product leaves every cart and every
\* order as it was; and an add-to-cart of a product that has a line in the
\* cart changes the quantity of the line only: its name, price and seller
\* stay those taken when the line was added, whatever the product's are
\* now.
C28_SnapshotsKept ==
    [][ /\ (Responded /\ resp'.op \in {"update_product", "delete_product"}) =>
              (carts' = carts /\ orders' = orders)
        /\ (Responded /\ resp'.op = "add_to_cart" /\ resp'.error = "ok") =>
              LET old == CartItems(carts, resp'.cred.sub)
                  new == CartItems(carts', resp'.cred.sub)
                  k == LineOf(old, resp'.arg.product_id)
              IN k # 0 =>
                    /\ new[k].product_name = old[k].product_name
                    /\ new[k].price = old[k].price
                    /\ new[k].seller_id = old[k].seller_id
                    /\ new = [old EXCEPT ![k].quantity = @ + resp'.arg.quantity]
      ]_vars

\* The buyer ordered product 1 at price 2 and put it in its cart, the
\* product was renamed and its price raised to 3, and the buyer added it
\* again: the line has quantity 2 at the name and price of the first add,
\* and the order has its line and total.
C28_Witness ==
    /\ resp.op = "add_to_cart"
    /\ resp.error = "ok"
    /\ products[1].name = "Widget 2"
    /\ products[1].price = 3
    /\ Len(carts) = 1
    /\ carts[1].items =
          <<[product_id |-> 1, product_name |-> "Widget", price |-> 2, quantity |-> 2,
             seller_id |-> 2]>>
    /\ carts[1].total_amount = 4
    /\ Len(orders) = 1
    /\ orders[1].items = TheOrder.items
    /\ orders[1].total_amount = 2

\* C29: a successful update of a product sets each field the request
\* carries to the value it carries and updated_at to the time of the
\* update, and leaves every field the request does not carry, the id, the
\* seller and the active flag of the product, and every other product, as
\* they were.
C29_UpdateChangesPresentFieldsOnly ==
    [][ (Responded /\ resp'.op = "update_product" /\ resp'.error = "ok") =>
          LET i == FindProduct(resp'.arg.product_id)
              d == resp'.arg.data
              old == products[i]
              new == products'[i]
          IN /\ Len(products') = Len(products)
             /\ \A k \in 1..Len(products) : k # i => products'[k] = products[k]
             /\ new.name = (IF d.name = None THEN old.name ELSE d.name[1])
             /\ new.price = (IF d.price = None THEN old.price ELSE d.price[1])
             /\ new.stock_quantity =
                   (IF d.stock_quantity = None THEN old.stock_quantity
                    ELSE d.stock_quantity[1])
             /\ new.updated_at = now
             /\ new.id = old.id
             /\ new.seller_id = old.seller_id
             /\ new.is_active = old.is_active
      ]_vars

\* On day 2 the seller renamed the product it had withdrawn, sending the
\* name alone: the product has the new name and timestamp, the price and
\* stock it had, and is still withdrawn.
C29_Witness ==
    /\ now = 2
    /\ resp.op = "update_product"
    /\ resp.error = "ok"
    /\ resp.arg.data = [name |-> Some("Widget 2"), price |-> None, stock_quantity |-> None]
    /\ products[1] =
          [id |-> 1, name |-> "Widget 2", price |-> 2, stock_quantity |-> 2,
           seller_id |-> 2, is_active |-> FALSE, updated_at |-> 2]

=============================================================================
